---- MODULE Spec2Model ----
(***************************************************************************)
(* Model of Metaserializer (src/include/Metaserializer.hpp): the record    *)
(* encoder Serialize<BufferSize>::apply, the record decoder                *)
(* Unserialize<BufferSize>::apply with its function-local static scratch   *)
(* buffer, the per-kind codecs they dispatch to, and TypeHasher.           *)
(*                                                                         *)
(* Bytes are 0..255.  A size_t hash is its 8 bytes in memory order (little *)
(* endian), a serial_size_t is a signed 16-bit value stored in 2 bytes.    *)
(* A size_t byte count x is kept as an integer; a negative integer x       *)
(* stands for the wrapped value 2^64 + x (see UGt).                        *)
(***************************************************************************)
EXTENDS Integers, Sequences, FiniteSets, TLC

\* ------------------------------------------------------------- bounds
\* Template argument BufferSize of the instantiation under study.
BufferSize == 14
\* Longest string value placed in a record.
MaxStrLen == 2
\* Bytes appended to an encoded record to build an over-long input.
MaxPad == 2
\* Readable bytes of foreign memory that follow the static scratch buffer.
MaxOOB == 2
\* Longest std::string handed to ComplexObject<std::string>::serialize alone.
MaxWireStr == 32768

\* ------------------------------------------------------------- widths
hash_size == 8
serial_size == 2

Byte == 0..255

\* ------------------------------------------------------------- bytes
Zeros(n) == [i \in 1..n |-> 0]

Take(s, n) == IF n >= Len(s) THEN s ELSE SubSeq(s, 1, n)

Drop(s, n) == IF n >= Len(s) THEN <<>> ELSE SubSeq(s, n + 1, Len(s))

\* unsigned a > b on size_t values, a negative integer standing for 2^64 + x
UGt(a, b) ==
    IF (a < 0) = (b < 0) THEN a > b ELSE a < 0

\* the two bytes of static_cast<serial_size_t>(x), as memcpy stores them
ShortBytes(x) ==
    LET u == x % 65536 IN <<(u % 256), (u \div 256)>>

\* the serial_size_t that memcpy reads back from two bytes
ReadShort(b0, b1) ==
    LET u == b0 + 256 * b1 IN IF u >= 32768 THEN u - 65536 ELSE u

RECURSIVE XorBits(_, _, _)
XorBits(a, b, k) ==
    IF k = 0 THEN 0
    ELSE (((a % 2) + (b % 2)) % 2) + 2 * XorBits(a \div 2, b \div 2, k - 1)

\* operator ^ on two size_t values
XorHash(x, y) == [i \in 1..hash_size |-> XorBits(x[i], y[i], 8)]

\* ------------------------------------------------------------- types
\* kind: "triv" trivially copyable scalar of w bytes, "str" std::string,
\* "tarr" T[n] of trivially copyable elements of w bytes, "carr"
\* std::string[n], "ptr" what an array decays to when passed by value.
TUchar == [kind |-> "triv", w |-> 1, n |-> 0]
TInt == [kind |-> "triv", w |-> 4, n |-> 0]
TStr == [kind |-> "str", w |-> 1, n |-> 0]
TArr(w, n) == [kind |-> "tarr", w |-> w, n |-> n]
TStrArr(n) == [kind |-> "carr", w |-> 1, n |-> n]

\* std::is_trivially_copyable<T>::value
is_trivial(T) == T.kind \in {"triv", "tarr"}

\* std::is_array<T>::value
is_array(T) == T.kind \in {"tarr", "carr"}

\* sizeof(T) of a trivially copyable T
SizeOf(T) == IF T.kind = "tarr" THEN T.w * T.n ELSE T.w

\* the type a by-value parameter is deduced to: arrays decay to pointers
Decay(T) ==
    CASE T.kind = "tarr" -> [kind |-> "ptr", w |-> T.w, n |-> 0]
      [] T.kind = "carr" -> [kind |-> "ptr", w |-> 0, n |-> 0]
      [] OTHER -> T

\* typeid(T).hash_code() (libstdc++, x86-64), in memory order
hash_code(T) ==
    CASE T.kind = "triv" /\ T.w = 1 -> <<204, 167, 115, 39, 229, 73, 35, 160>>
      [] T.kind = "triv" /\ T.w = 2 -> <<226, 58, 38, 92, 223, 107, 4, 89>>
      [] T.kind = "triv" /\ T.w = 4 -> <<6, 222, 117, 182, 246, 115, 200, 86>>
      [] T.kind = "str" -> <<125, 96, 229, 156, 242, 8, 36, 80>>
      [] T.kind = "ptr" /\ T.w = 1 -> <<149, 158, 63, 242, 144, 245, 190, 103>>
      [] T.kind = "ptr" /\ T.w = 2 -> <<219, 213, 149, 22, 239, 183, 109, 204>>
      [] T.kind = "ptr" /\ T.w = 0 -> <<29, 223, 249, 184, 58, 248, 123, 92>>

\* ------------------------------------------------------------- TypeHasher
\* A fold that depends on the order of the types: the running value is
\* rotated by one byte before each type's hash is folded in.
RECURSIVE TypeHasher_exec_impl_ordered(_, _)
TypeHasher_exec_impl_ordered(value, Ts) ==
    LET rotated == [i \in 1..hash_size |-> value[(i % hash_size) + 1]]
        folded == XorHash(rotated, hash_code(Head(Ts)))
    IN  IF Len(Ts) = 1 THEN folded
        ELSE TypeHasher_exec_impl_ordered(folded, Tail(Ts))

\* operator | in place of operator ^ on two size_t values
RECURSIVE OrBits(_, _, _)
OrBits(a, b, k) ==
    IF k = 0 THEN 0
    ELSE (IF (a % 2) + (b % 2) > 0 THEN 1 ELSE 0) + 2 * OrBits(a \div 2, b \div 2, k - 1)

\* A fold that accumulates with | : a type folded in twice does not cancel.
RECURSIVE TypeHasher_exec_impl_or(_, _)
TypeHasher_exec_impl_or(value, Ts) ==
    LET folded == [i \in 1..hash_size |-> OrBits(value[i], hash_code(Head(Ts))[i], 8)]
    IN  IF Len(Ts) = 1 THEN folded ELSE TypeHasher_exec_impl_or(folded, Tail(Ts))

RECURSIVE TypeHasher_exec_impl(_, _)
TypeHasher_exec_impl(value, Ts) ==
    IF Len(Ts) = 1 THEN XorHash(value, hash_code(Ts[1]))
    ELSE TypeHasher_exec_impl(XorHash(value, hash_code(Head(Ts))), Tail(Ts))

\* Ts are the types of the arguments as passed: by value, so decayed
TypeHasher_apply(Ts) ==
    TypeHasher_exec_impl(Zeros(hash_size), [i \in 1..Len(Ts) |-> Decay(Ts[i])])

\* ------------------------------------------------------------- encoders
\* ComplexObject<std::string, false>::serialize
String_serialize(obj) == ShortBytes(Len(obj)) \o obj

\* SimpleObject<T>::serialize: the object representation, sizeof(T) bytes
SimpleObject_serialize(src) == src

\* TypeSerializerImpl<T[N], true, true>::apply
TrivialArray_serialize(T, data) == ShortBytes(T.n) \o data

RECURSIVE ComplexArray_loop(_, _)
ComplexArray_loop(data, i) ==
    IF i > Len(data) THEN <<>>
    ELSE String_serialize(data[i]) \o ComplexArray_loop(data, i + 1)

\* TypeSerializerImpl<T[N], true, false>::apply
ComplexArray_serialize(T, data) == ShortBytes(T.n) \o ComplexArray_loop(data, 1)

\* TypeSerializer::apply: the bytes one field writes at the cursor
TypeSerializer_apply(T, data) ==
    CASE is_array(T) /\ is_trivial(T) -> TrivialArray_serialize(T, data)
      [] is_array(T) /\ ~is_trivial(T) -> ComplexArray_serialize(T, data)
      [] ~is_array(T) /\ is_trivial(T) -> SimpleObject_serialize(data)
      [] OTHER -> String_serialize(data)

\* ------------------------------------------------------------- inputs
Types(r) == [i \in 1..Len(r) |-> r[i].T]
Values(r) == [i \in 1..Len(r) |-> r[i].v]

Text == <<65, 100, 97, 33, 46>>
StrOfLen(n) == [i \in 1..n |-> Text[((i - 1) % 5) + 1]]
Strings == {StrOfLen(n) : n \in 0..MaxStrLen}

ValuesOf(T) ==
    CASE T.kind = "triv" /\ T.w = 1 -> {<<7>>}
      [] T.kind = "triv" /\ T.w = 4 -> {<<30, 0, 0, 0>>}
      [] T.kind = "str" -> Strings
      [] T.kind = "tarr" -> {[i \in 1..(T.w * T.n) |-> i]}
      [] T.kind = "carr" -> {[i \in 1..T.n |-> s] : s \in {StrOfLen(0), StrOfLen(1)}}

\* the argument lists the calls are instantiated with
Schemas ==
    { <<TInt, TStr>>, <<TStr, TInt>>, <<TUchar>>, <<TStr>>,
      <<TArr(1, 2)>>, <<TArr(1, 3)>>, <<TArr(2, 1), TUchar>>,
      <<TArr(1, 2), TUchar, TUchar>>, <<TUchar, TInt, TUchar>>,
      <<TStrArr(2)>>, <<TStrArr(1), TStr>>, <<TUchar, TUchar>> }

RecordsOf(Ts) ==
    { r \in [1..Len(Ts) -> UNION {[T : {Ts[i]}, v : ValuesOf(Ts[i])] : i \in 1..Len(Ts)}] :
        \A i \in 1..Len(Ts) : r[i].T = Ts[i] }

Records == UNION {RecordsOf(Ts) : Ts \in Schemas}

\* the value an output slot holds before the call
InitSlot(T) ==
    CASE T.kind = "triv" -> [i \in 1..T.w |-> 153]
      [] T.kind = "str" -> <<63>>
      [] T.kind = "tarr" -> [i \in 1..(T.w * T.n) |-> 153]
      [] T.kind = "carr" -> [i \in 1..T.n |-> <<63>>]

InitOut(Ts) == [i \in 1..Len(Ts) |-> InitSlot(Ts[i])]

\* ------------------------------------------------------------- inputs of decode
\* the offsets of an encoded record at which a 2-byte prefix starts
RECURSIVE FieldOffset(_, _)
FieldOffset(r, i) ==
    IF i = 1 THEN hash_size
    ELSE FieldOffset(r, i - 1) + Len(TypeSerializer_apply(r[i - 1].T, r[i - 1].v))

PrefixOffsets(r) ==
    {FieldOffset(r, i) : i \in {j \in 1..Len(r) : r[j].T.kind # "triv"}}
    \cup {FieldOffset(r, i) + serial_size : i \in {j \in 1..Len(r) : r[j].T.kind = "carr"}}

TamperShorts == {-32768, -3, -2, -1, 0, 1, 3, 4, 32767}

Tamper(w, off, x) ==
    [i \in 1..Len(w) |->
        IF i = off + 1 THEN ShortBytes(x)[1]
        ELSE IF i = off + 2 THEN ShortBytes(x)[2] ELSE w[i]]

\* byte strings handed to Unserialize::apply: the encoded record, its
\* prefixes, the record with one length or count prefix replaced, and the
\* record followed by extra bytes
Inputs(w, r) ==
    {Take(w, k) : k \in 0..Len(w)}
    \cup {Tamper(w, off, x) : off \in {o \in PrefixOffsets(r) : o + 2 <= Len(w)}, x \in TamperShorts}
    \cup {w \o Zeros(k) : k \in 1..MaxPad}

\* what a byte of the foreign memory after the scratch buffer may hold
OOBBytes == {0, 255}

\* ------------------------------------------------------------- memory
\* buffer[off] of the static scratch buffer; past its end, foreign memory
MemByte(buf, off, oob) == IF off < BufferSize THEN buf[off + 1] ELSE oob

MemRead(buf, off, len, oob) == [i \in 1..len |-> MemByte(buf, off + i - 1, oob)]

\* [off, off + len) lies inside the scratch buffer
InBuffer(off, len) == len >= 0 /\ off + len <= BufferSize

\* [off, off + len) is readable: the scratch buffer and the MaxOOB bytes
\* after it; an access outside faults
Mapped(off, len) == len >= 0 /\ off + len <= BufferSize + MaxOOB

\* ------------------------------------------------------------- decoders
\* A codec's outcome: st is "ok", "underrun" (it threw std::runtime_error),
\* "badlen" (std::string built with a length above max_size) or "segv" (an
\* access outside readable memory); n the bytes it reports read; val the
\* slot's value afterwards; spill what it wrote past the end of the slot;
\* oobr whether it read past the end of the scratch buffer.
Outcome(st, n, val, spill, oobr) ==
    [st |-> st, n |-> n, val |-> val, spill |-> spill, oobr |-> oobr]

\* SimpleObject<T>::unserialize
SimpleObject_unserialize(T, buf, cur, oob) == MemRead(buf, cur, T.w, oob)

\* TypeUnserializerImpl<T, false, true>::apply
Trivial_unserialize(T, result, buf, cur, buffer_size, oob) ==
    IF UGt(T.w, buffer_size) THEN Outcome("underrun", 0, result, <<>>, FALSE)
    ELSE IF ~Mapped(cur, T.w) THEN Outcome("segv", 0, result, <<>>, TRUE)
    ELSE Outcome("ok", T.w, SimpleObject_unserialize(T, buf, cur, oob), <<>>,
                 ~InBuffer(cur, T.w))

\* ComplexObject<std::string, false>::unserialize
String_unserialize(result, buf, cur, buffer_size, oob) ==
    IF ~Mapped(cur, serial_size) THEN Outcome("segv", 0, result, <<>>, TRUE)
    ELSE
    LET string_size == ReadShort(MemByte(buf, cur, oob), MemByte(buf, cur + 1, oob))
        \* size_t arithmetic: -1 + 2 wraps to 1, -2 + 2 to 0
        full_size == string_size + serial_size
    IN  IF UGt(full_size, buffer_size)
        THEN Outcome("underrun", 0, result, <<>>, ~InBuffer(cur, serial_size))
        ELSE IF string_size < 0
        THEN Outcome("badlen", 0, result, <<>>, ~InBuffer(cur, serial_size))
        ELSE IF ~Mapped(cur + serial_size, string_size)
        THEN Outcome("segv", 0, result, <<>>, TRUE)
        ELSE Outcome("ok", full_size,
                     MemRead(buf, cur + serial_size, string_size, oob), <<>>,
                     ~InBuffer(cur, full_size))

\* TypeUnserializerImpl<T[N], true, true>::apply.  Both size tests build a
\* std::runtime_error and discard it: nothing is thrown.
TrivialArray_unserialize(T, result, buf, cur, buffer_size, oob) ==
    IF ~Mapped(cur, serial_size) THEN Outcome("segv", 0, result, <<>>, TRUE)
    ELSE
    LET size == ReadShort(MemByte(buf, cur, oob), MemByte(buf, cur + 1, oob))
        len == T.w * size
        bytes == MemRead(buf, cur + serial_size, len, oob)
    IN  IF ~Mapped(cur + serial_size, len)
        THEN Outcome("segv", 0, result, <<>>, TRUE)
        ELSE Outcome("ok", len + serial_size,
                     Take(bytes, SizeOf(T)) \o Drop(result, len),
                     Drop(bytes, SizeOf(T)),
                     ~InBuffer(cur, len + serial_size))

\* the loop of TypeUnserializerImpl<T[N], true, false>::apply from element i
RECURSIVE ComplexArray_unserialize_loop(_, _, _, _, _, _, _, _, _, _)
ComplexArray_unserialize_loop(T, size, i, bytes_read, val, spill, oobr, buf, cur_bs, oob) ==
    IF i >= size THEN Outcome("ok", bytes_read, val, spill, oobr)
    ELSE
    LET bytes_remaining == cur_bs[2] - bytes_read
        r == String_unserialize(IF i < T.n THEN val[i + 1] ELSE <<>>, buf,
                                cur_bs[1] + bytes_read, bytes_remaining, oob)
    IN  IF r.st # "ok" THEN Outcome(r.st, bytes_read, val, spill, oobr \/ r.oobr)
        ELSE ComplexArray_unserialize_loop(T, size, i + 1, bytes_read + r.n,
                IF i < T.n THEN [val EXCEPT ![i + 1] = r.val] ELSE val,
                IF i < T.n THEN spill ELSE Append(spill, r.val),
                oobr \/ r.oobr, buf, cur_bs, oob)

\* TypeUnserializerImpl<T[N], true, false>::apply.  The size test builds a
\* std::runtime_error and discards it: nothing is thrown.
ComplexArray_unserialize(T, result, buf, cur, buffer_size, oob) ==
    IF ~Mapped(cur, serial_size) THEN Outcome("segv", 0, result, <<>>, TRUE)
    ELSE
    LET size == ReadShort(MemByte(buf, cur, oob), MemByte(buf, cur + 1, oob))
    IN  ComplexArray_unserialize_loop(T, size, 0, serial_size, result, <<>>,
                                      ~InBuffer(cur, serial_size), buf,
                                      <<cur, buffer_size>>, oob)

\* TypeUnserializer::apply
TypeUnserializer_apply(T, data, buf, cur, bytes_remaining, oob) ==
    CASE is_array(T) /\ is_trivial(T) ->
            TrivialArray_unserialize(T, data, buf, cur, bytes_remaining, oob)
      [] is_array(T) /\ ~is_trivial(T) ->
            ComplexArray_unserialize(T, data, buf, cur, bytes_remaining, oob)
      [] ~is_array(T) /\ is_trivial(T) ->
            Trivial_unserialize(T, data, buf, cur, bytes_remaining, oob)
      [] OTHER -> String_unserialize(data, buf, cur, bytes_remaining, oob)

\* Where the bytes written past the end of output slot j land when the
\* caller's slots lie back to back (members of one struct): in slot j + 1
\* and the slots after it, as long as these are trivially copyable.
RECURSIVE SpillBytes(_, _, _, _)
SpillBytes(o, Ts, j, bytes) ==
    IF bytes = <<>> \/ j > Len(Ts) THEN o
    ELSE IF ~is_trivial(Ts[j]) THEN o
    ELSE SpillBytes([o EXCEPT ![j] = Take(bytes, SizeOf(Ts[j])) \o Drop(o[j], Len(bytes))],
                    Ts, j + 1, Drop(bytes, SizeOf(Ts[j])))

\* The same for std::string elements assigned past the end of a
\* std::string[N] slot: they land in the std::string slots that follow.
RECURSIVE SpillStrings(_, _, _, _)
SpillStrings(o, Ts, j, strs) ==
    IF strs = <<>> \/ j > Len(Ts) THEN o
    ELSE IF Ts[j].kind # "str" THEN o
    ELSE SpillStrings([o EXCEPT ![j] = Head(strs)], Ts, j + 1, Tail(strs))

Spill(o, Ts, j, spill) ==
    IF Ts[j].kind = "tarr" THEN SpillBytes(o, Ts, j + 1, spill)
    ELSE SpillStrings(o, Ts, j + 1, spill)

\* What undefined behaviour in a codec can turn into: "none" when there was
\* none; else the call dies ("crash"), or goes on with the foreign memory
\* hit being of no consequence ("silent"), or goes on with the bytes written
\* past a slot landing in the caller's next slots ("clobber").
UBOutcomes(r) ==
    IF r.st = "segv" THEN {"crash"}
    ELSE IF r.spill # <<>> THEN {"crash", "silent", "clobber"}
    ELSE IF r.oobr \/ r.st = "badlen" THEN {"crash", "silent"}
    ELSE {"none"}

\* ------------------------------------------------------------- state
Threads == {"A", "B"}

VARIABLES
    rec,      \* the arguments of Serialize::apply, each [T, v]
    epc,      \* where Serialize::apply is
    eidx,     \* the next argument exec_impl serializes
    ebuf,     \* unsigned char buffer[BufferSize] of Serialize::apply
    eover,    \* bytes written past the end of buffer
    ecur,     \* buffer_it - buffer
    wire,     \* the std::string Serialize::apply returned
    schema,   \* TArgs... of the Unserialize::apply instantiation
    sbuf,     \* its static unsigned char buffer[BufferSize]
    thr,      \* per thread, the call of Unserialize::apply it runs
    str_pc,   \* where a call of ComplexObject<std::string>::serialize is
    str_obj,  \* its argument obj: the string WireStr(size, rot)
    str_out,  \* what it has written to its buffer argument
    str_ret   \* the value it returned

evars == <<rec, epc, eidx, ebuf, eover, ecur, wire>>

dvars == <<schema, sbuf, thr>>

svars == <<str_pc, str_obj, str_out, str_ret>>

vars == <<rec, epc, eidx, ebuf, eover, ecur, wire, schema, sbuf, thr,
          str_pc, str_obj, str_out, str_ret>>

\* A call: pc where it is; data the input; outs the output slots; bib
\* bytes_in_buffer; cur the cursor (offset into the scratch buffer); rem the
\* bytes_in_buffer argument of the next exec_impl; idx the next slot; res how
\* it ended; ret the value returned.  History kept for the properties:
\* nread, the bytes of data read so far; nwrites, its writes to the scratch
\* buffer; stepped_on, where this call was when another call last wrote the
\* scratch buffer while this one had its bytes in it ("no": never); spilled,
\* whether a codec of this call wrote past the end of an output slot.
Idle ==
    [pc |-> "idle", data |-> <<>>, outs |-> <<>>, bib |-> 0, cur |-> 0, rem |-> 0,
     idx |-> 0, res |-> "none", ret |-> 0, nread |-> 0, nwrites |-> 0,
     stepped_on |-> "no", spilled |-> FALSE]

\* ------------------------------------------------------------- Serialize
\* memcpy(buffer + ecur, bytes, Len(bytes)): bytes past BufferSize land in
\* the memory that follows the array
EncWrite(bytes) ==
    LET all == Take(ebuf, ecur) \o eover \o bytes
    IN /\ ebuf' = Take(all, BufferSize) \o Zeros(BufferSize - Len(Take(all, BufferSize)))
       /\ eover' = Drop(all, BufferSize)
       /\ ecur' = ecur + Len(bytes)

\* Serialize::set_hash: the fingerprint of the argument types at offset 0
Serialize_set_hash ==
    /\ epc = "set_hash"
    /\ EncWrite(TypeHasher_apply(Types(rec)))
    /\ epc' = "exec_impl"
    /\ UNCHANGED <<rec, eidx, wire, dvars, svars>>

\* Serialize::exec_impl: one argument, written at the cursor
Serialize_exec_impl ==
    /\ epc = "exec_impl"
    /\ eidx <= Len(rec)
    /\ EncWrite(TypeSerializer_apply(rec[eidx].T, rec[eidx].v))
    /\ eidx' = eidx + 1
    /\ epc' = IF eidx = Len(rec) THEN "return" ELSE "exec_impl"
    /\ UNCHANGED <<rec, wire, dvars, svars>>

\* Serialize::apply, its return: std::string(buffer, bytes_written).  After a
\* write past buffer[BufferSize - 1] the behaviour is undefined: the call
\* dies, or returns what it reads back from buffer and the memory after it,
\* where the bytes written past the array are still there (garble = -1) or
\* have since been overwritten, the locals of apply living there (garble the
\* value they now hold).
Serialize_return ==
    /\ epc = "return"
    /\ \E outcome \in (IF ecur > BufferSize THEN {"crashed", "returned"} ELSE {"returned"}) :
       \E garble \in (IF ecur > BufferSize /\ outcome = "returned"
                      THEN OOBBytes \cup {-1} ELSE {-1}) :
        /\ epc' = outcome
        /\ wire' = IF outcome # "returned" THEN <<>>
                   ELSE IF garble = -1 THEN Take(ebuf \o eover, ecur)
                   ELSE Take(ebuf \o [i \in 1..Len(eover) |-> garble], ecur)
    /\ UNCHANGED <<rec, eidx, ebuf, eover, ecur, dvars, svars>>

\* ------------------------------------------------------------- Unserialize
\* a call of Unserialize::apply(data, args...) begins
Begin(t, data, Ts) ==
    /\ thr[t].pc = "idle"
    /\ schema' = Ts
    /\ thr' = [thr EXCEPT ![t] = [Idle EXCEPT !.pc = "capacity", !.data = data,
                                              !.outs = InitOut(Ts)]]

\* the caller decodes what Serialize::apply returned, or a variant of it
Unserialize_call(t) ==
    /\ epc = "returned"
    /\ thr[t].pc = "idle"
    /\ \E Ts \in Schemas : \E data \in Inputs(wire, rec) : Begin(t, data, Ts)
    /\ UNCHANGED <<svars, evars, sbuf>>

Finish(c, res) == [c EXCEPT !.pc = "done", !.res = res]

\* The capacity test off by one: data.size() >= BufferSize.
Unserialize_capacity_off_by_one(t) ==
    /\ thr[t].pc = "capacity"
    /\ thr' = [thr EXCEPT ![t] =
                IF Len(@.data) >= BufferSize THEN Finish(@, "capacity-exceeded")
                ELSE [@ EXCEPT !.pc = "memset"]]
    /\ UNCHANGED <<svars, evars, schema, sbuf>>

\* The size test of get_hash_from_bytes moved up, next to the capacity test:
\* a short input is rejected before copy_to_buffer runs.
Unserialize_capacity_then_size(t) ==
    /\ thr[t].pc = "capacity"
    /\ thr' = [thr EXCEPT ![t] =
                IF Len(@.data) > BufferSize THEN Finish(@, "capacity-exceeded")
                ELSE IF Len(@.data) < hash_size THEN Finish(@, "truncated-input")
                ELSE [@ EXCEPT !.pc = "memset"]]
    /\ UNCHANGED <<svars, evars, schema, sbuf>>

\* Unserialize::apply: if (data.size() > BufferSize) throw
Unserialize_capacity(t) ==
    /\ thr[t].pc = "capacity"
    /\ thr' = [thr EXCEPT ![t] =
                IF Len(@.data) > BufferSize THEN Finish(@, "capacity-exceeded")
                ELSE [@ EXCEPT !.pc = "memset"]]
    /\ UNCHANGED <<svars, evars, schema, sbuf>>

\* the other calls whose bytes are in the scratch buffer
InFlight(t) == {u \in Threads \ {t} : thr[u].pc \in {"memcpy", "check_type", "exec_impl"}}

SteppingOn(t) ==
    [u \in Threads |->
        IF u \in InFlight(t) THEN [thr[u] EXCEPT !.stepped_on = thr[u].pc] ELSE thr[u]]

\* Unserialize::copy_to_buffer: std::memset(buffer, 0, BufferSize)
Unserialize_memset(t) ==
    /\ thr[t].pc = "memset"
    /\ sbuf' = Zeros(BufferSize)
    /\ thr' = [SteppingOn(t) EXCEPT ![t] = [@ EXCEPT !.pc = "memcpy", !.nwrites = @ + 1]]
    /\ UNCHANGED <<svars, evars, schema>>

\* The copy one byte short: std::memcpy(buffer, data.data(), data.size() - 1).
Unserialize_memcpy_short(t) ==
    /\ thr[t].pc = "memcpy"
    /\ sbuf' = Take(thr[t].data, Len(thr[t].data) - 1)
                \o Drop(sbuf, Len(Take(thr[t].data, Len(thr[t].data) - 1)))
    /\ thr' = [SteppingOn(t) EXCEPT ![t] =
                [@ EXCEPT !.pc = "check_type", !.bib = Len(thr[t].data),
                          !.nread = Len(thr[t].data), !.nwrites = @ + 1]]
    /\ UNCHANGED <<svars, evars, schema>>

\* Unserialize::copy_to_buffer: std::memcpy(buffer, data.data(), data.size())
Unserialize_memcpy(t) ==
    /\ thr[t].pc = "memcpy"
    /\ sbuf' = thr[t].data \o Drop(sbuf, Len(thr[t].data))
    /\ thr' = [SteppingOn(t) EXCEPT ![t] =
                [@ EXCEPT !.pc = "check_type", !.bib = Len(thr[t].data),
                          !.nread = Len(thr[t].data), !.nwrites = @ + 1]]
    /\ UNCHANGED <<svars, evars, schema>>

\* The read without the size test: hash_size bytes are read from data
\* whatever its size, the missing ones being whatever follows it in memory.
get_hash_from_bytes_unchecked(data) ==
    [thrown |-> FALSE, hash |-> Take(data \o Zeros(hash_size), hash_size),
     nread |-> hash_size]

\* Unserialize::get_hash_from_bytes: thrown tells whether it threw, hash what
\* it read from data, nread how many bytes of data it read
get_hash_from_bytes(data) ==
    IF Len(data) < hash_size THEN [thrown |-> TRUE, hash |-> <<>>, nread |-> 0]
    ELSE [thrown |-> FALSE, hash |-> Take(data, hash_size), nread |-> hash_size]

\* The comparison's result dropped: every fingerprint is accepted.
check_type_accept_all(raw_data, Ts) ==
    LET msg_hash == get_hash_from_bytes(raw_data)
    IN  [thrown |-> msg_hash.thrown, nread |-> msg_hash.nread, same |-> TRUE]

\* Unserialize::check_type
check_type(raw_data, Ts) ==
    LET msg_hash == get_hash_from_bytes(raw_data)
        struct_hash == TypeHasher_apply(Ts)
    IN  [thrown |-> msg_hash.thrown, nread |-> msg_hash.nread,
         same |-> msg_hash.hash = struct_hash]

Max(a, b) == IF a > b THEN a ELSE b

\* Unserialize::apply: if (!check_type(data, args...)) throw, else on to
\* exec_impl(buffer + hash_size, bytes_in_buffer - hash_size, args...)
Unserialize_check_type(t) ==
    /\ thr[t].pc = "check_type"
    /\ LET c == check_type(thr[t].data, schema)
           seen == [thr[t] EXCEPT !.nread = Max(@, c.nread)]
       IN thr' = [thr EXCEPT ![t] =
                IF c.thrown THEN Finish(seen, "truncated-input")
                ELSE IF ~c.same THEN Finish(seen, "schema-mismatch")
                ELSE [seen EXCEPT !.pc = "exec_impl", !.idx = 1, !.cur = hash_size,
                                  !.rem = thr[t].bib - hash_size, !.ret = hash_size]]
    /\ UNCHANGED <<svars, evars, schema, sbuf>>

\* Unserialize::exec_impl: one slot decoded from the scratch buffer at the
\* cursor, then on to the rest with the cursor advanced
Unserialize_exec_impl(t) ==
    /\ thr[t].pc = "exec_impl"
    /\ \E oob \in OOBBytes :
        LET c == thr[t]
            r == TypeUnserializer_apply(schema[c.idx], c.outs[c.idx], sbuf, c.cur,
                                        c.rem, oob)
        IN \E ub \in UBOutcomes(r) :
            LET stored == [c.outs EXCEPT ![c.idx] = r.val]
                outs == IF ub = "clobber" THEN Spill(stored, schema, c.idx, r.spill)
                        ELSE stored
                wrote == [c EXCEPT !.outs = outs,
                                   !.spilled = @ \/ r.spill # <<>>]
            IN thr' = [thr EXCEPT ![t] =
                CASE ub = "crash" -> Finish(c, "crash")
                  [] ub # "crash" /\ r.st = "underrun" -> Finish(wrote, "size-underrun")
                  [] ub # "crash" /\ r.st = "badlen" -> Finish(wrote, "length_error")
                  [] OTHER ->
                        IF c.idx = Len(schema)
                        THEN [Finish(wrote, "ok") EXCEPT !.ret = @ + r.n,
                                                         !.cur = @ + r.n, !.rem = @ - r.n]
                        ELSE [wrote EXCEPT !.idx = @ + 1, !.cur = @ + r.n,
                                           !.rem = @ - r.n, !.ret = @ + r.n]]
    /\ UNCHANGED <<svars, evars, schema, sbuf>>

\* ------------------------------------------------------------- one string
\* The strings handed to ComplexObject<std::string>::serialize on its own:
\* size bytes of Text, starting rot bytes into it.
WireStr(size, rot) == [i \in 1..size |-> Text[((i - 1 + rot) % 5) + 1]]

WireSizes == (0..3) \cup ((MaxWireStr - 3)..MaxWireStr)

WireObjs ==
    {[size |-> n, rot |-> k] : n \in WireSizes \ {0}, k \in 0..4}
    \cup {[size |-> 0, rot |-> 0]}

\* What is kept of the caller's buffer: prefix, its first serial_size bytes;
\* nbody, the bytes written after them; same, whether these are obj.data().
NothingWritten == [prefix |-> <<>>, nbody |-> 0, same |-> TRUE]

\* serialize, lines 212-214: byte_size_value stored at buffer
String_serialize_prefix ==
    /\ str_pc = "prefix"
    /\ LET bytes == String_serialize(WireStr(str_obj.size, str_obj.rot))
       IN  str_out' = [str_out EXCEPT !.prefix = Take(bytes, serial_size)]
    /\ str_pc' = "body"
    /\ UNCHANGED <<str_obj, str_ret, evars, dvars>>

\* serialize, line 215: obj.data() copied after it
String_serialize_body ==
    /\ str_pc = "body"
    /\ LET obj == WireStr(str_obj.size, str_obj.rot)
           bytes == String_serialize(obj)
       IN  str_out' = [str_out EXCEPT !.nbody = Len(Drop(bytes, serial_size)),
                                      !.same = (Drop(bytes, serial_size) = obj)]
    /\ str_pc' = "return"
    /\ UNCHANGED <<str_obj, str_ret, evars, dvars>>

\* serialize, line 216: return serial_size + bytes2cpy
String_serialize_return ==
    /\ str_pc = "return"
    /\ str_ret' = Len(String_serialize(WireStr(str_obj.size, str_obj.rot)))
    /\ str_pc' = "returned"
    /\ UNCHANGED <<str_obj, str_out, evars, dvars>>

InitString ==
    /\ rec = <<>>
    /\ epc = "idle"
    /\ eidx = 1
    /\ ebuf = Zeros(BufferSize)
    /\ eover = <<>>
    /\ ecur = 0
    /\ wire = <<>>
    /\ schema = <<>>
    /\ sbuf = Zeros(BufferSize)
    /\ thr = [t \in Threads |-> Idle]
    /\ str_pc = "prefix"
    /\ str_obj \in WireObjs
    /\ str_out = NothingWritten
    /\ str_ret = 0

NextString ==
    \/ String_serialize_prefix
    \/ String_serialize_body
    \/ String_serialize_return

SpecString == InitString /\ [][NextString]_vars

\* ------------------------------------------------------------- two callers
\* the instantiations two threads call at the same time
ConcSchemas == {<<TInt, TStr>>, <<TStr>>, <<TArr(1, 2), TUchar, TUchar>>}

\* what Serialize::apply returns for a record that fits its buffer
RECURSIVE Serialized_fields(_, _)
Serialized_fields(r, i) ==
    IF i > Len(r) THEN <<>>
    ELSE TypeSerializer_apply(r[i].T, r[i].v) \o Serialized_fields(r, i + 1)

Serialized(r) == TypeHasher_apply(Types(r)) \o Serialized_fields(r, 1)

EncodedSize(r) == Len(Serialized(r))

\* each thread decodes a well-formed encoding of a record of the schema
Unserialize_call_conc(t) ==
    /\ thr[t].pc = "idle"
    /\ \E r \in {x \in RecordsOf(schema) : EncodedSize(x) <= BufferSize} :
            Begin(t, Serialized(r), schema)
    /\ UNCHANGED <<svars, evars, sbuf>>

InitConc ==
    /\ rec = <<>>
    /\ epc = "idle"
    /\ eidx = 1
    /\ ebuf = Zeros(BufferSize)
    /\ eover = <<>>
    /\ ecur = 0
    /\ wire = <<>>
    /\ schema \in ConcSchemas
    /\ sbuf = Zeros(BufferSize)
    /\ thr = [t \in Threads |-> Idle]
    /\ str_pc = "idle"
    /\ str_obj = [size |-> 0, rot |-> 0]
    /\ str_out = NothingWritten
    /\ str_ret = 0

NextConc ==
    \E t \in Threads :
        \/ Unserialize_call_conc(t)
        \/ Unserialize_capacity(t)
        \/ Unserialize_memset(t)
        \/ Unserialize_memcpy(t)
        \/ Unserialize_check_type(t)
        \/ Unserialize_exec_impl(t)

SpecConc == InitConc /\ [][NextConc]_vars

Init ==
    /\ rec \in Records
    /\ epc = "set_hash"
    /\ eidx = 1
    /\ ebuf = Zeros(BufferSize)
    /\ eover = <<>>
    /\ ecur = 0
    /\ wire = <<>>
    /\ schema = <<>>
    /\ sbuf = Zeros(BufferSize)
    /\ thr = [t \in Threads |-> Idle]
    /\ str_pc = "idle"
    /\ str_obj = [size |-> 0, rot |-> 0]
    /\ str_out = NothingWritten
    /\ str_ret = 0

Next ==
    \/ Serialize_set_hash
    \/ Serialize_exec_impl
    \/ Serialize_return
    \/ Unserialize_call("A")
    \/ Unserialize_capacity("A")
    \/ Unserialize_memset("A")
    \/ Unserialize_memcpy("A")
    \/ Unserialize_check_type("A")
    \/ Unserialize_exec_impl("A")

Spec == Init /\ [][Next]_vars

\* ------------------------------------------------------------- properties
Done(t) == thr[t].pc = "done"

Terminal == {"returned", "crashed", "capacity-exceeded"}

\* the call decodes exactly what Serialize::apply returned, into slots of
\* the types it was encoded from, in the same order
RoundTripCall(t) ==
    /\ epc = "returned"
    /\ thr[t].pc # "idle"
    /\ thr[t].data = wire
    /\ schema = Types(rec)

\* C1: whenever Serialize::apply returns a byte string, Unserialize::apply on
\* it with output slots of the same types in the same order succeeds and
\* leaves every slot equal to the value encoded.
C1_RoundTrip ==
    \A t \in Threads :
        (RoundTripCall(t) /\ Done(t)) =>
            (thr[t].res = "ok" /\ thr[t].outs = Values(rec))

\* The round trip of the records that fit the buffer (no write past its end).
RoundTripWithinCapacity ==
    \A t \in Threads :
        (RoundTripCall(t) /\ Done(t) /\ EncodedSize(rec) <= BufferSize) =>
            (thr[t].res = "ok" /\ thr[t].outs = Values(rec)
             /\ thr[t].ret = Len(wire))

\* the input carries a fingerprint, and it is not that of the output types
Mismatch(t) ==
    /\ thr[t].pc # "idle"
    /\ Len(thr[t].data) >= hash_size
    /\ Take(thr[t].data, hash_size) # TypeHasher_apply(schema)

C3_CapacityBoundary ==
    /\ (EncodedSize(rec) = BufferSize /\ epc \in Terminal) =>
            (epc = "returned" /\ Len(wire) = BufferSize)
    /\ EncodedSize(rec) > BufferSize =>
            (eover = <<>> /\ (epc \in Terminal => epc = "capacity-exceeded"))

\* the element count at the cursor of the call, as the array codec reads it
CountAtCursor(t) ==
    ReadShort(MemByte(sbuf, thr[t].cur, 0), MemByte(sbuf, thr[t].cur + 1, 0))

\* the call is about to decode slot idx, of the given kind
Decoding(t, kind) ==
    /\ thr[t].pc = "exec_impl"
    /\ schema[thr[t].idx].kind = kind
    /\ thr'[t] # thr[t]

\* C4: decoding a fixed array of trivial elements, if the element count
\* times the element width exceeds the bytes remaining after the count
\* prefix, or fewer than 2 bytes remain for the prefix, the decode fails with
\* size-underrun and no element bytes are copied into the output array.
C4_ArrayUnderrun ==
    [][\A t \in Threads :
        (/\ Decoding(t, "tarr")
         /\ thr[t].rem >= 0
         /\ \/ thr[t].rem < serial_size
            \/ schema[thr[t].idx].w * CountAtCursor(t) > thr[t].rem - serial_size)
        => (thr'[t].res = "size-underrun" /\ thr'[t].outs = thr[t].outs)]_vars

\* C6: decoding a string, for every value L of the signed 2-byte length
\* prefix: if L plus the 2 prefix bytes exceeds the bytes remaining (as a
\* negative L, a byte count above every remaining count, does), the decode
\* fails with size-underrun and the output string is not modified; otherwise
\* the output string is set to exactly the L bytes after the prefix.
C6_StringUnderrun ==
    [][\A t \in Threads :
        (Decoding(t, "str") /\ thr[t].rem >= 0) =>
            LET L == CountAtCursor(t)
            IN  IF L < 0 \/ L + serial_size > thr[t].rem
                THEN thr'[t].res = "size-underrun" /\ thr'[t].outs = thr[t].outs
                ELSE /\ thr'[t].res \in {"none", "ok"}
                     /\ Len(thr'[t].outs[thr[t].idx]) = L
                     /\ thr'[t].outs[thr[t].idx]
                            = MemRead(sbuf, thr[t].cur + serial_size, L, 0)]_vars

\* C7: on an input shorter than the fingerprint, the empty input included,
\* the call fails with truncated-input, writes no output slot and reads no
\* byte beyond the end of the input.
C7_TruncationSafety ==
    \A t \in Threads :
        (thr[t].pc # "idle" /\ Len(thr[t].data) < hash_size) =>
            /\ thr[t].outs = InitOut(schema)
            /\ thr[t].nread <= Len(thr[t].data)
            /\ Done(t) => thr[t].res = "truncated-input"

C7_Witness ==
    \E t \in Threads :
        /\ Done(t) /\ thr[t].res = "truncated-input"
        /\ Len(thr[t].data) < hash_size /\ Len(thr[t].data) > 0
        /\ thr[t].nread = Len(thr[t].data)

\* C8: on an input longer than the capacity the call fails with
\* capacity-exceeded before anything is copied into the scratch buffer and
\* before any output slot is written; an input of exactly the capacity is
\* not rejected by this gate.
C8_CapacityGate ==
    \A t \in Threads :
        /\ (thr[t].pc # "idle" /\ Len(thr[t].data) > BufferSize) =>
            /\ thr[t].nwrites = 0
            /\ sbuf = Zeros(BufferSize)
            /\ thr[t].outs = InitOut(schema)
            /\ Done(t) => thr[t].res = "capacity-exceeded"
        /\ (Done(t) /\ Len(thr[t].data) = BufferSize) =>
            (thr[t].res # "capacity-exceeded" /\ thr[t].nwrites > 0)

C8_Witness ==
    \E t \in Threads :
        /\ Done(t) /\ thr[t].res = "capacity-exceeded"
        /\ Len(thr[t].data) = BufferSize + 1

\* C9: when the slot at position i fails to decode with size-underrun, the
\* call stops at once with that failure; every slot before i keeps the value
\* decoded into it and every slot after i is exactly as before the call.
C9_PartialDecodeFrame ==
    [][\A t \in Threads :
        (thr'[t] # thr[t] /\ thr'[t].res = "size-underrun") =>
            /\ thr'[t].pc = "done"
            /\ \A j \in 1..Len(schema) :
                /\ j < thr[t].idx => thr'[t].outs[j] = thr[t].outs[j]
                /\ j > thr[t].idx => thr'[t].outs[j] = InitSlot(schema[j])]_vars

\* The same frame for the calls in which no codec wrote past the end of an
\* output slot.
FrameWithoutSpill ==
    [][\A t \in Threads :
        (thr'[t] # thr[t] /\ thr'[t].res = "size-underrun" /\ ~thr'[t].spilled) =>
            /\ thr'[t].pc = "done"
            /\ \A j \in 1..Len(schema) :
                /\ j < thr[t].idx => thr'[t].outs[j] = thr[t].outs[j]
                /\ j > thr[t].idx => thr'[t].outs[j] = InitSlot(schema[j])]_vars

Perms(n) == {p \in [1..n -> 1..n] : \A i, j \in 1..n : p[i] = p[j] => i = j}

Permuted(Ts, p) == [i \in 1..Len(Ts) |-> Ts[p[i]]]

IsPermutation(Ss, Ts) ==
    Len(Ss) = Len(Ts) /\ \E p \in Perms(Len(Ts)) : Ss = Permuted(Ts, p)

\* C10: type lists that are permutations of each other have the same
\* fingerprint, so a record decoded into slots whose types are a permutation
\* of the encoded ones passes the schema gate: it is never rejected with
\* schema-mismatch.
C10_OrderInsensitive ==
    /\ \A p \in Perms(Len(rec)) :
            TypeHasher_apply(Permuted(Types(rec), p)) = TypeHasher_apply(Types(rec))
    /\ \A t \in Threads :
        (/\ epc = "returned" /\ thr[t].pc # "idle" /\ thr[t].data = wire
         /\ IsPermutation(schema, Types(rec))) =>
            /\ thr[t].res # "schema-mismatch"
            /\ thr[t].pc \in {"exec_impl", "done"} /\ Len(wire) <= BufferSize =>
                    thr[t].res # "truncated-input" /\ thr[t].nwrites > 0

\* (int, string) encoded, (string, int) requested: the gate is passed and
\* the string codec runs on the bytes of the int
C10_Witness ==
    \E t \in Threads :
        /\ Types(rec) = <<TInt, TStr>> /\ schema = <<TStr, TInt>>
        /\ epc = "returned" /\ thr[t].data = wire
        /\ thr[t].pc = "exec_impl" /\ thr[t].idx = 1

\* the record whose encoding the call was given
RecordOf(t) == CHOOSE r \in RecordsOf(schema) : Serialized(r) = thr[t].data

\* C5: two calls of one instantiation share the scratch buffer.  A call that
\* no other call's copy_to_buffer stepped on decodes its own input; the only
\* way a call decodes anything else is the other call writing the buffer
\* while it was in use.
C5_SharedScratch ==
    \A t \in Threads :
        (Done(t) /\ thr[t].stepped_on = "no") =>
            (thr[t].res = "ok" /\ thr[t].outs = Values(RecordOf(t)))

\* call t passed its fingerprint check, the other call's copy_to_buffer then
\* overwrote the buffer, and t went on to decode, with success, values that
\* are not those of its input but those of the other call's
C5_Witness ==
    \E t \in Threads : \E u \in Threads \ {t} :
        /\ Done(t) /\ thr[t].res = "ok"
        /\ thr[t].stepped_on = "exec_impl"
        /\ thr[u].pc # "idle"
        /\ thr[t].data # thr[u].data
        /\ thr[t].outs # Values(RecordOf(t))
        /\ thr[t].outs = Values(RecordOf(u))

\* the types the fingerprint is taken of in the instantiations under study
HashedTypes == UNION {{Ts[i] : i \in 1..Len(Ts)} : Ts \in Schemas}

\* Ts with T added at two places: after its first i and after its first j
\* elements (i <= j)
InsertTwice(Ts, T, i, j) ==
    Take(Ts, i) \o <<T>> \o SubSeq(Ts, i + 1, j) \o <<T>> \o Drop(Ts, j)

\* Ts is Ss with some type added twice
AddsPair(Ts, Ss) ==
    \E T \in HashedTypes : \E i \in 0..Len(Ss) : \E j \in i..Len(Ss) :
        Ts = InsertTwice(Ss, T, i, j)

\* set_hash has just written the fingerprint of the argument types
HashWritten == epc = "exec_impl" /\ eidx = 1

\* C11: for every type T the fingerprint of (T, T) is 0, the value the fold
\* starts from, and adding one type twice to a type list, at any two places,
\* leaves its fingerprint (the one set_hash writes) unchanged; so a record
\* decoded into slots whose types are the encoded ones less such a pair is
\* not rejected by the fingerprint check.
C11_DuplicateCancellation ==
    /\ HashWritten =>
        /\ \A T \in HashedTypes : TypeHasher_apply(<<T, T>>) = Zeros(hash_size)
        /\ \A T \in HashedTypes : \A i \in 0..Len(rec) : \A j \in i..Len(rec) :
                TypeHasher_apply(InsertTwice(Types(rec), T, i, j)) = Take(ebuf, hash_size)
    /\ \A t \in Threads :
        (/\ thr[t].pc = "done" /\ thr[t].res = "schema-mismatch"
         /\ epc = "returned" /\ thr[t].data = wire) =>
            ~AddsPair(Types(rec), schema)

\* (unsigned char, unsigned char) encoded: the fingerprint written is 0
C11_Witness ==
    \E t \in Threads :
        /\ Types(rec) = <<TUchar, TUchar>> /\ epc = "returned"
        /\ Take(wire, hash_size) = Zeros(hash_size)
        /\ thr[t].data = wire /\ schema = Types(rec)
        /\ Done(t) /\ thr[t].res = "ok"

\* the signed 16-bit length the call stored in front of the string bytes
PrefixValue == ReadShort(str_out.prefix[1], str_out.prefix[2])

\* C12: for every string passed to the string encoder, the 2-byte signed
\* length prefix L it writes is in 0..32767 and equals the number of raw
\* string bytes written right after it, these bytes are the string's, and
\* the count of bytes it returns is exactly 2 + L; the empty string encodes
\* to exactly 2 bytes with L = 0.
C12_StringWireFormat ==
    str_pc = "returned" =>
        /\ PrefixValue \in 0..32767
        /\ PrefixValue = str_out.nbody
        /\ str_out.same
        /\ str_ret = serial_size + PrefixValue
        /\ str_obj.size = 0 => (str_ret = serial_size /\ PrefixValue = 0)

\* The same for the strings of at most 32767 bytes.
WireFormatUpTo32767 ==
    (str_pc = "returned" /\ str_obj.size <= 32767) =>
        /\ PrefixValue = str_obj.size
        /\ PrefixValue = str_out.nbody
        /\ str_out.same
        /\ str_ret = serial_size + PrefixValue

\* the size the layout gives a field: sizeof(T) for a trivial scalar, 2 + L
\* for a string of L bytes, 2 + N * W for an array of N trivial elements of
\* width W, 2 plus the sizes of its strings for an array of strings
RECURSIVE StringsSize(_)
StringsSize(v) == IF v = <<>> THEN 0 ELSE serial_size + Len(Head(v)) + StringsSize(Tail(v))

LayoutSize(f) ==
    CASE f.T.kind = "triv" -> f.T.w
      [] f.T.kind = "str" -> serial_size + Len(f.v)
      [] f.T.kind = "tarr" -> serial_size + f.T.n * f.T.w
      [] f.T.kind = "carr" -> serial_size + StringsSize(f.v)

\* where the layout puts field i: after the fingerprint and the fields before
RECURSIVE LayoutOffset(_, _)
LayoutOffset(r, i) ==
    IF i = 1 THEN hash_size ELSE LayoutOffset(r, i - 1) + LayoutSize(r[i - 1])

\* w is laid out as the encoding of r
Layout(w, r) ==
    /\ Len(w) = LayoutOffset(r, Len(r)) + LayoutSize(r[Len(r)])
    /\ Take(w, hash_size) = TypeHasher_apply(Types(r))
    /\ \A i \in 1..Len(r) :
        SubSeq(w, LayoutOffset(r, i) + 1, LayoutOffset(r, i) + LayoutSize(r[i]))
            = TypeSerializer_apply(r[i].T, r[i].v)

\* C13: the byte string Serialize::apply returns is the fingerprint of the
\* field types at offset 0, then each field's encoding in declaration order
\* with no gaps; its length is the fingerprint width plus the per-field sizes
\* (sizeof(T), 2 + L, 2 + N * W).
C13_EncodedLayout ==
    epc = "returned" => Layout(wire, rec)

\* The same for the records whose encoding fits the buffer.
LayoutWithinCapacity ==
    (epc = "returned" /\ LayoutOffset(rec, Len(rec)) + LayoutSize(rec[Len(rec)]) <= BufferSize)
        => Layout(wire, rec)

\* the scratch buffer holding the call's input and zeros after it
HoldsInput(t) == sbuf = thr[t].data \o Zeros(BufferSize - Len(thr[t].data))

\* C14, as claimed: the steps run in the order capacity check, truncated-input
\* check, copy into the scratch buffer, fingerprint comparison, field
\* decoding, each gating the next; so the copy runs only for an input that
\* carries a whole fingerprint, and a call rejected with truncated-input has
\* copied nothing into the scratch buffer, which is as it was.
C14_GateOrdering ==
    \A t \in Threads :
        /\ thr[t].pc \in {"memset", "memcpy"} =>
            (Len(thr[t].data) <= BufferSize /\ Len(thr[t].data) >= hash_size)
        /\ (Done(t) /\ thr[t].res = "truncated-input") =>
            (thr[t].nwrites = 0 /\ sbuf = Zeros(BufferSize))

\* C14, amended: the steps run in the order capacity check, copy into the
\* scratch buffer, truncated-input check, fingerprint comparison, field
\* decoding, each gating the next.  The copy runs for every input within the
\* capacity; a call rejected with capacity-exceeded has copied nothing; a
\* call rejected with truncated-input or schema-mismatch has zeroed the
\* scratch buffer and copied its input into it, and has written no output
\* slot; field decoding runs only on an input that carries the fingerprint of
\* the output types.
C14_GateOrderingAmended ==
    \A t \in Threads :
        /\ thr[t].pc \in {"memset", "memcpy", "check_type", "exec_impl"} =>
            Len(thr[t].data) <= BufferSize
        /\ thr[t].pc \in {"idle", "capacity", "memset"} => thr[t].nread = 0
        /\ thr[t].pc \in {"check_type", "exec_impl"} =>
            (thr[t].nwrites = 2 /\ HoldsInput(t))
        /\ (thr[t].pc = "exec_impl" \/ (thr[t].pc # "idle" /\ thr[t].outs # InitOut(schema))) =>
            /\ Len(thr[t].data) >= hash_size
            /\ Take(thr[t].data, hash_size) = TypeHasher_apply(schema)
        /\ Done(t) =>
            /\ thr[t].res = "capacity-exceeded" <=> Len(thr[t].data) > BufferSize
            /\ thr[t].res = "capacity-exceeded" =>
                (thr[t].nwrites = 0 /\ sbuf = Zeros(BufferSize))
            /\ thr[t].res = "truncated-input" <=>
                (Len(thr[t].data) < hash_size /\ Len(thr[t].data) <= BufferSize)
            /\ thr[t].res \in {"truncated-input", "schema-mismatch"} =>
                (thr[t].nwrites = 2 /\ HoldsInput(t) /\ thr[t].outs = InitOut(schema))

\* a call rejected with truncated-input after its bytes, not all zero, were
\* copied into the scratch buffer
C14_Witness ==
    \E t \in Threads :
        /\ Done(t) /\ thr[t].res = "truncated-input"
        /\ thr[t].nwrites = 2 /\ HoldsInput(t)
        /\ sbuf # Zeros(BufferSize)

\* C15: decoding into a fixed array output slot of N elements (trivial or
\* composite), no decode writes more than N elements into the slot, whatever
\* element count the input bytes carry, the encodings of an array of the
\* same element type and another length (which pass the schema gate)
\* included.
C15_OutputArrayBound ==
    \A t \in Threads : thr[t].pc # "idle" => ~thr[t].spilled

\* The same for the calls that decode what Serialize::apply returned for a
\* record that fits the buffer, into slots of the types encoded.
ArrayBoundOnRoundTrip ==
    \A t \in Threads :
        (RoundTripCall(t) /\ EncodedSize(rec) <= BufferSize) => ~thr[t].spilled

\* the call is decoding fields, or has decoded them all
PastGates(t) ==
    thr[t].pc = "exec_impl" \/ (Done(t) /\ thr[t].res \in {"ok", "size-underrun", "length_error"})

\* C16: at every step of Unserialize::apply the read cursor (the fingerprint
\* width plus the bytes consumed so far) is at most the input length, that
\* is the remaining-bytes count handed to the next field never underflows,
\* and on success the byte count returned is at most the input length.
C16_CursorInvariant ==
    \A t \in Threads :
        /\ PastGates(t) =>
            (thr[t].cur <= Len(thr[t].data) /\ thr[t].rem >= 0)
        /\ (Done(t) /\ thr[t].res = "ok") => thr[t].ret <= Len(thr[t].data)

\* The same for the instantiations with no array among the output slots.
CursorWithoutArrays ==
    \A t \in Threads :
        (thr[t].pc # "idle" /\ \A i \in 1..Len(schema) : ~is_array(schema[i])) =>
            /\ PastGates(t) =>
                (thr[t].cur <= Len(thr[t].data) /\ thr[t].rem >= 0)
            /\ (Done(t) /\ thr[t].res = "ok") => thr[t].ret <= Len(thr[t].data)

====
